---- MODULE Spec2Model ----
(***************************************************************************)
(* kado/store/mixin.py: the HasData mixin (a binary payload with two       *)
(* lazily computed, memoized digests, secure equality, hash and length).   *)
(*                                                                         *)
(* Python values are tagged records [type, val]; val is always a sequence  *)
(* of naturals (the bytes of a bytes object, the code points of a str, the *)
(* single number of an int or bool).  An object of class HasData is a      *)
(* record of its attributes.  Every method is an operator from the         *)
(* receiver (and arguments) to a result record                             *)
(*   [self, other, exc, ret, scomp, wcomp]                                 *)
(* holding the receiver and the argument object after the call, the        *)
(* exception raised ("None" when it returns), the returned value and the   *)
(* number of strong and weak digest computations the call performed.       *)
(***************************************************************************)
EXTENDS Integers, Sequences, FiniteSets, TLC

\* ------------------------------------------------------------- bounds
\* Longest payload of the single-container specification.
MaxLen == 2
\* Number of payloads (the first ones, shortest first) of the two-container
\* specification.
NumPairPayloads == 3

\* ------------------------------------------------------ Python values
Byte == {97, 98}

PyNone == [type |-> "NoneType", val |-> <<>>]
PyBytes(s) == [type |-> "bytes", val |-> s]
PyByteArray(s) == [type |-> "bytearray", val |-> s]
PyStr(s) == [type |-> "str", val |-> s]
PyInt(n) == [type |-> "int", val |-> <<n>>]
PyBool(b) == [type |-> "bool", val |-> <<IF b THEN 1 ELSE 0>>]

IsNone(v) == v.type = "NoneType"

\* isinstance(v, bytes)
IsBytes(v) == v.type = "bytes"

ByteStrings(n) == UNION {[1..k -> Byte] : k \in 0..n}

\* Position of a byte string in the shortest-first, then lexicographic, order.
RECURSIVE Rank(_)
Rank(s) ==
    IF s = <<>> THEN 0
    ELSE 2 * Rank(SubSeq(s, 1, Len(s) - 1)) + (IF s[Len(s)] = 97 THEN 1 ELSE 2)

Payloads == ByteStrings(MaxLen)
PairPayloads == {s \in ByteStrings(NumPairPayloads) : Rank(s) < NumPairPayloads}

\* Values that are not bytes objects.
NonBytes == {PyInt(123), PyNone, PyByteArray(<<97>>)}
\* Operands that neither expose a byte payload nor are a byte sequence.
NonComparable == {PyInt(123), PyNone, PyStr(<<97, 98>>)}

\* ------------------------------------------- kado.constants (not in src/)
BLAKE2_DATA_LENGTH == 2
BLAKE2_DATA_SEED == <<107>>
XXH64_DATA_SEED == 5

\* ------------------------------------------------------- hash objects
\* A hash object is the algorithm's parameters and the bytes fed so far.
\* The compression functions are stood in for by a polynomial fold over the
\* parameters and the fed bytes, reduced to the digest width.
RECURSIVE Fold(_, _, _)
Fold(acc, s, m) ==
    IF s = <<>> THEN acc
    ELSE Fold((acc * 31 + Head(s) + 1) % m, Tail(s), m)

\* The n big-endian bytes of v.
RECURSIVE ToBytes(_, _)
ToBytes(v, n) ==
    IF n = 0 THEN <<>> ELSE Append(ToBytes(v \div 256, n - 1), v % 256)

HexChar(d) == IF d < 10 THEN 48 + d ELSE 87 + d

RECURSIVE hexlify(_)
hexlify(bs) ==
    IF bs = <<>> THEN <<>>
    ELSE <<HexChar(Head(bs) \div 16), HexChar(Head(bs) % 16)>> \o hexlify(Tail(bs))

\* hashlib.blake2b(digest_size=size, person=seed)
blake2b(size, seed) ==
    [type |-> "blake2b", val |-> <<>>, digest_size |-> size, person |-> seed]

\* xxhash.xxh64(seed=seed)
xxh64(seed) ==
    [type |-> "xxh64", val |-> <<>>, digest_size |-> 8, person |-> <<seed>>]

\* h.update(b)
update(h, b) == [h EXCEPT !.val = @ \o b.val]

\* h.hexdigest()
hexdigest(h) ==
    PyStr(hexlify(ToBytes(Fold(Fold(h.digest_size, h.person, 65536), h.val, 65536),
                          h.digest_size)))

\* hash(b) of a bytes object
PyHash(b) == PyInt(Fold(7, b.val, 65536))

\* ------------------------------------------------------------ results
Result(self, other, exc, ret, scomp, wcomp) ==
    [self |-> self, other |-> other, exc |-> exc, ret |-> ret,
     scomp |-> scomp, wcomp |-> wcomp]

Return(self, ret) == Result(self, PyNone, "None", ret, 0, 0)
Raise(self, exc) == Result(self, PyNone, exc, PyNone, 0, 0)

\* ------------------------------------------------------------ HasData
\* An object whose __init__ has not run (or has raised).
NoObject ==
    [type |-> "HasData", alive |-> FALSE, _data |-> PyNone,
     _shash |-> PyNone, _whash |-> PyNone,
     _shash_dirty |-> FALSE, _whash_dirty |-> FALSE]

_shash_init(size, seed) == blake2b(size, seed)

_whash_init(seed) == xxh64(seed)

_data_get(self) == self._data

\* The data property's getter.
data(self) == _data_get(self)

_data_hash(self, h) == update(h, data(self))

_data_set(self, v) ==
    IF ~IsBytes(v) THEN Raise(self, "TypeError")
    ELSE Return([self EXCEPT !._data = v], PyNone)

__init__(self, v) ==
    LET fresh == [self EXCEPT !.alive = TRUE, !._shash = PyNone, !._whash = PyNone,
                              !._shash_dirty = FALSE, !._whash_dirty = FALSE,
                              !._data = PyNone]
        r == _data_set(fresh, v)
    IN  IF r.exc # "None" THEN Raise(self, r.exc) ELSE r

\* Faulty variant: the setter stores the payload and leaves the dirty flags alone.
data_setter_keeps_flags(self, v) == _data_set(self, v)

\* Faulty variant: the setter recomputes both digests at once.
data_setter_eager(self, v) ==
    LET r == _data_set(self, v)
    IN  IF r.exc # "None" THEN r
        ELSE Result([r.self EXCEPT
                        !._shash = update(blake2b(BLAKE2_DATA_LENGTH, BLAKE2_DATA_SEED), v),
                        !._whash = update(xxh64(XXH64_DATA_SEED), v),
                        !._shash_dirty = FALSE, !._whash_dirty = FALSE],
                    PyNone, "None", PyNone, 1, 1)

\* Faulty variant: the setter marks the digests dirty before it validates the value.
data_setter_flags_first(self, v) ==
    LET d == [self EXCEPT !._shash_dirty = TRUE, !._whash_dirty = TRUE]
        r == _data_set(d, v)
    IN  IF r.exc # "None" THEN Raise(d, r.exc) ELSE r

\* Faulty variant: the setter marks the digests dirty only when the payload changes.
data_setter_if_changed(self, v) ==
    LET r == _data_set(self, v)
    IN  IF r.exc # "None" \/ v = self._data THEN r
        ELSE Return([r.self EXCEPT !._shash_dirty = TRUE, !._whash_dirty = TRUE],
                    PyNone)

\* The data property's setter.
data_setter(self, v) ==
    LET r == _data_set(self, v)
    IN  IF r.exc # "None" THEN r
        ELSE Return([r.self EXCEPT !._shash_dirty = TRUE, !._whash_dirty = TRUE],
                    PyNone)

\* Faulty variant: the strong read recomputes and leaves its dirty flag set.
shash_keeps_dirty(self) ==
    IF self._shash_dirty \/ IsNone(self._shash)
    THEN LET h == update(blake2b(BLAKE2_DATA_LENGTH, BLAKE2_DATA_SEED), self._data)
             s == [self EXCEPT !._shash = h]
         IN  Result(s, PyNone, "None", hexdigest(s._shash), 1, 0)
    ELSE Return(self, hexdigest(self._shash))

\* Faulty variant: the strong read clears both dirty flags.
shash_clears_both(self) ==
    IF self._shash_dirty \/ IsNone(self._shash)
    THEN LET h == update(blake2b(BLAKE2_DATA_LENGTH, BLAKE2_DATA_SEED), self._data)
             s == [self EXCEPT !._shash = h, !._shash_dirty = FALSE,
                               !._whash_dirty = FALSE]
         IN  Result(s, PyNone, "None", hexdigest(s._shash), 1, 0)
    ELSE Return(self, hexdigest(self._shash))

shash(self) ==
    IF self._shash_dirty \/ IsNone(self._shash)
    THEN LET h == _data_hash(self, _shash_init(BLAKE2_DATA_LENGTH, BLAKE2_DATA_SEED))
             s == [self EXCEPT !._shash = h, !._shash_dirty = FALSE]
         IN  Result(s, PyNone, "None", hexdigest(s._shash), 1, 0)
    ELSE Return(self, hexdigest(self._shash))

whash(self) ==
    IF self._whash_dirty \/ IsNone(self._whash)
    THEN LET h == _data_hash(self, _whash_init(XXH64_DATA_SEED))
             s == [self EXCEPT !._whash = h, !._whash_dirty = FALSE]
         IN  Result(s, PyNone, "None", hexdigest(s._whash), 0, 1)
    ELSE Return(self, hexdigest(self._whash))

\* hmac.compare_digest's loop over the right operand: every position is
\* visited and the differences are accumulated, with no early exit.
RECURSIVE tscmp(_, _, _, _)
tscmp(left, right, result, steps) ==
    IF right = <<>> THEN [result |-> result, steps |-> steps]
    ELSE tscmp(Tail(left), Tail(right),
               IF Head(left) # Head(right) THEN 1 ELSE result, steps + 1)

BytesLike(v) == v.type \in {"bytes", "bytearray"}

\* Faulty variant: a comparison that stops at the first difference.
RECURSIVE memcmp(_, _, _)
memcmp(left, right, steps) ==
    IF left = <<>> \/ right = <<>>
    THEN [result |-> IF left = right THEN 0 ELSE 1, steps |-> steps]
    ELSE IF Head(left) # Head(right) THEN [result |-> 1, steps |-> steps + 1]
    ELSE memcmp(Tail(left), Tail(right), steps + 1)

compare_early_exit(a, b) ==
    IF ~((BytesLike(a) /\ BytesLike(b)) \/ (a.type = "str" /\ b.type = "str"))
    THEN [exc |-> "TypeError", ret |-> PyNone, steps |-> 0]
    ELSE LET t == memcmp(a.val, b.val, 0)
         IN  [exc |-> "None", ret |-> PyBool(t.result = 0), steps |-> t.steps]

\* hmac.compare_digest(a, b): [exc, ret, steps]
compare_digest(a, b) ==
    IF ~((BytesLike(a) /\ BytesLike(b)) \/ (a.type = "str" /\ b.type = "str"))
    THEN [exc |-> "TypeError", ret |-> PyNone, steps |-> 0]
    ELSE LET same == Len(a.val) = Len(b.val)
             t == tscmp(IF same THEN a.val ELSE b.val, b.val,
                        IF same THEN 0 ELSE 1, 0)
         IN  [exc |-> "None", ret |-> PyBool(t.result = 0), steps |-> t.steps]

\* hasattr(other, "data")
HasDataAttr(other) == other.type = "HasData"

\* Faulty variant: an operand without a data attribute compares unequal.
eq_compare_no_fallback(self, other) ==
    IF other.type = "HasData" THEN compare_digest(self._data, other._data)
    ELSE [exc |-> "None", ret |-> PyBool(FALSE), steps |-> 0]

\* Faulty variant: an operand that cannot be compared compares unequal.
eq_compare_silent(self, other) ==
    LET c == IF other.type = "HasData" THEN compare_digest(self._data, other._data)
             ELSE compare_digest(self._data, other)
    IN  IF c.exc = "TypeError"
        THEN [exc |-> "None", ret |-> PyBool(FALSE), steps |-> c.steps]
        ELSE c

\* The comparison __eq__ ends with: the one of the try block when other has
\* a data attribute, the one of the except block otherwise.
eq_compare(self, other) ==
    IF HasDataAttr(other) THEN compare_digest(data(self), data(other))
    ELSE compare_digest(data(self), other)

\* Faulty variant: two containers are compared by their strong digests.
eq_by_digest(self, other) ==
    IF other.type = "HasData"
    THEN LET a == shash(self)
             b == shash(other)
         IN  Result(a.self, b.self, "None", PyBool(a.ret = b.ret),
                    a.scomp + b.scomp, 0)
    ELSE LET c == compare_digest(self._data, other)
         IN  Result(self, other, c.exc, c.ret, 0, 0)

__eq__(self, other) ==
    LET c == eq_compare(self, other)
    IN  Result(self, other, c.exc, c.ret, 0, 0)

\* Faulty variant: the hash is taken of the strong digest.
hash_of_digest(self) ==
    LET r == shash(self) IN Result(r.self, PyNone, "None", PyHash(r.ret), r.scomp, 0)

__hash__(self) == Return(self, PyHash(data(self)))

__len__(self) == Return(self, PyInt(Len(data(self).val)))

\* -------------------------------------------------------------- state
VARIABLES
    obj,        \* the HasData objects, by name
    observing,  \* whether calls are recorded in last (fixed by the specification)
    last,       \* the last call: what was called, on what, and how it ended
    seen,       \* history: the digests read since the payload was last assigned
    everread,   \* history: whether a digest of the object was ever read
    meta,       \* the HasMetadata objects, by name
    order,      \* history: the keys of each map, in the order they were inserted
    ident,      \* the HasID object
    idcalls,    \* history: how often _id_get was called (0, 1, 2 = more than once)
    thr         \* two threads calling into obj[1]: where each stands in its call

dataVars == <<obj, seen, everread>>
otherVars == <<meta, order, ident, idcalls, thr>>
vars == <<obj, observing, last, seen, everread, meta, order, ident, idcalls, thr>>

Containers == {1, 2}
Maps == {1, 2}

PyDict(items) == [type |-> "dict", val |-> items]

\* A HasMetadata object whose __init__ has not run (or has raised).
NoMap == [type |-> "HasMetadata", alive |-> FALSE, _metadata |-> PyDict(<<>>)]

\* A HasID object whose __init__ has not run.
NoIdent == [type |-> "HasID", alive |-> FALSE, _id |-> PyNone]

\* No thread is inside a call.
NoThreads ==
    [reader |-> "idle", writer |-> "idle", arg |-> PyNone, ret |-> PyNone,
     since |-> "none", overtaken |-> FALSE]

NoCall ==
    [op |-> "none", self |-> 0, other |-> 0, exc |-> "None", ret |-> PyNone,
     scomp |-> 0, wcomp |-> 0]

Called(op, c, d, r) ==
    IF observing
    THEN [op |-> op, self |-> c, other |-> d, exc |-> r.exc, ret |-> r.ret,
          scomp |-> r.scomp, wcomp |-> r.wcomp]
    ELSE last

NotRead == [s |-> PyNone, w |-> PyNone]

Start(rec) ==
    /\ obj = [c \in Containers |-> NoObject]
    /\ observing = rec
    /\ last = NoCall
    /\ seen = [c \in Containers |-> NotRead]
    /\ everread = [c \in Containers |-> FALSE]
    /\ meta = [m \in Maps |-> NoMap]
    /\ order = [m \in Maps |-> <<>>]
    /\ ident = NoIdent
    /\ idcalls = 0
    /\ thr = NoThreads

\* c = HasData(v)
Construct(c, v) ==
    /\ ~obj[c].alive
    /\ LET r == __init__(obj[c], v)
       IN  /\ obj' = [obj EXCEPT ![c] = r.self]
           /\ last' = Called("init", c, 0, r)
    /\ UNCHANGED <<otherVars, observing, seen, everread>>

\* c.data = v
SetData(c, v) ==
    /\ obj[c].alive
    /\ LET r == data_setter(obj[c], v)
       IN  /\ obj' = [obj EXCEPT ![c] = r.self]
           /\ last' = Called("set", c, 0, r)
           /\ seen' = IF r.exc = "None" THEN [seen EXCEPT ![c] = NotRead] ELSE seen
    /\ UNCHANGED <<otherVars, observing, everread>>

\* c.shash
ReadStrong(c) ==
    /\ obj[c].alive
    /\ LET r == shash(obj[c])
       IN  /\ obj' = [obj EXCEPT ![c] = r.self]
           /\ last' = Called("shash", c, 0, r)
           /\ seen' = [seen EXCEPT ![c].s = r.ret]
    /\ everread' = [everread EXCEPT ![c] = TRUE]
    /\ UNCHANGED <<otherVars, observing>>

\* c.whash
ReadWeak(c) ==
    /\ obj[c].alive
    /\ LET r == whash(obj[c])
       IN  /\ obj' = [obj EXCEPT ![c] = r.self]
           /\ last' = Called("whash", c, 0, r)
           /\ seen' = [seen EXCEPT ![c].w = r.ret]
    /\ everread' = [everread EXCEPT ![c] = TRUE]
    /\ UNCHANGED <<otherVars, observing>>

\* c == d, d another (or the same) container
EqContainer(c, d) ==
    /\ obj[c].alive /\ obj[d].alive
    /\ LET r == __eq__(obj[c], obj[d])
       IN  /\ obj' = [obj EXCEPT ![d] = r.other, ![c] = r.self]
           /\ last' = Called("eq", c, d, r)
    /\ UNCHANGED <<otherVars, observing, seen, everread>>

\* c == v, v a value that is no container
EqValue(c, v) ==
    /\ obj[c].alive
    /\ LET r == __eq__(obj[c], v)
       IN  /\ obj' = [obj EXCEPT ![c] = r.self]
           /\ last' = Called("eq", c, 0, r)
    /\ UNCHANGED <<otherVars, observing, seen, everread>>

\* hash(c)
Hash(c) ==
    /\ obj[c].alive
    /\ LET r == __hash__(obj[c])
       IN  /\ obj' = [obj EXCEPT ![c] = r.self]
           /\ last' = Called("hash", c, 0, r)
    /\ UNCHANGED <<otherVars, observing, seen, everread>>

\* len(c)
Length(c) ==
    /\ obj[c].alive
    /\ LET r == __len__(obj[c])
       IN  /\ obj' = [obj EXCEPT ![c] = r.self]
           /\ last' = Called("len", c, 0, r)
    /\ UNCHANGED <<otherVars, observing, seen, everread>>

Calls(cs, ps) ==
    \/ \E c \in cs, v \in {PyBytes(p) : p \in ps} \cup NonBytes : Construct(c, v)
    \/ \E c \in cs, v \in {PyBytes(p) : p \in ps} \cup NonBytes : SetData(c, v)
    \/ \E c \in cs : ReadStrong(c)
    \/ \E c \in cs : ReadWeak(c)
    \/ \E c \in cs, d \in cs : EqContainer(c, d)
    \/ \E c \in cs, v \in {PyBytes(p) : p \in ps} \cup {PyByteArray(<<97>>)}
                              \cup NonComparable : EqValue(c, v)
    \/ \E c \in cs : Hash(c)
    \/ \E c \in cs : Length(c)

\* One container, payloads of up to MaxLen bytes, every call recorded.
Init == Start(TRUE)

Next == Calls({1}, Payloads)

Spec == Init /\ [][Next]_vars

\* Two containers, the NumPairPayloads first payloads, calls not recorded.
InitPair == Start(FALSE)

NextPair == Calls(Containers, PairPayloads)

SpecPair == InitPair /\ [][NextPair]_vars

\* -------------------------------------------------------- HasMetadata
\* Number of string keys the metadata maps are used with.
NumKeys == 2

IsStr(v) == v.type = "str"

PyList(items) == [type |-> "list", val |-> items]

MetaKeys == {PyStr(<<96 + i>>) : i \in 1..NumKeys}
MetaValues == {PyStr(<<49>>), PyStr(<<50>>)}
NonStr == {PyInt(7)}

\* A dict is its items <<key, value>>, keys unique, in insertion order.
DictKeys(d) == [i \in 1..Len(d.val) |-> d.val[i][1]]

DictHas(d, k) == \E i \in 1..Len(d.val) : d.val[i][1] = k

DictIndex(d, k) == CHOOSE i \in 1..Len(d.val) : d.val[i][1] = k

\* d[k]
DictGet(d, k) == d.val[DictIndex(d, k)][2]

\* Faulty variant: overwriting a present key moves it to the end.
dict_set_move_to_end(d, k, v) ==
    IF DictHas(d, k)
    THEN PyDict(Append(SelectSeq(d.val, LAMBDA e : e[1] # k), <<k, v>>))
    ELSE PyDict(Append(d.val, <<k, v>>))

\* d[k] = v: a present key keeps its place, a new one goes last.
DictSet(d, k, v) ==
    IF DictHas(d, k)
    THEN PyDict([d.val EXCEPT ![DictIndex(d, k)] = <<k, v>>])
    ELSE PyDict(Append(d.val, <<k, v>>))

\* del d[k]: the other items keep their order.
DictDel(d, k) ==
    LET i == DictIndex(d, k)
    IN  PyDict(SubSeq(d.val, 1, i - 1) \o SubSeq(d.val, i + 1, Len(d.val)))

\* Faulty variant: two dicts are equal only with their items in the same order.
dict_eq_ordered(a, b) == a.val = b.val

\* a == b of two dicts: the same items, in any order.
DictEq(a, b) ==
    /\ Len(a.val) = Len(b.val)
    /\ {a.val[i] : i \in 1..Len(a.val)} = {b.val[i] : i \in 1..Len(b.val)}

\* Faulty variant: every key is accepted.
key_try_any(key) == Return(PyNone, key)

_key_try(key) ==
    IF ~IsStr(key) THEN Raise(PyNone, "TypeError") ELSE Return(PyNone, key)

HasMetadata__contains__(self, key) ==
    LET k == _key_try(key)
    IN  IF k.exc # "None" THEN Raise(self, k.exc)
        ELSE Return(self, PyBool(DictHas(self._metadata, k.ret)))

\* a == b with b a dict: dict.__eq__ for a dict, the operand's own __eq__
\* (which compares its _metadata with b) for a HasMetadata, and the default
\* comparison of two different objects otherwise.
PyEqDict(a, b) ==
    IF a.type = "dict" THEN DictEq(a, b)
    ELSE IF a.type = "HasMetadata" THEN DictEq(b, a._metadata)
    ELSE FALSE

HasMetadata__eq__(self, other) ==
    Result(self, other, "None", PyBool(PyEqDict(other, self._metadata)), 0, 0)

\* hash(d) of a dict: dict is unhashable.
PyHashDict(self, d) == Raise(self, "TypeError")

HasMetadata__hash__(self) == PyHashDict(self, self._metadata)

HasMetadata__iter__(self) == Return(self, PyList(DictKeys(self._metadata)))

HasMetadata__len__(self) == Return(self, PyInt(Len(self._metadata.val)))

HasMetadata__delitem__(self, key) ==
    LET k == _key_try(key)
    IN  IF k.exc # "None" THEN Raise(self, k.exc)
        ELSE IF ~DictHas(self._metadata, k.ret) THEN Raise(self, "KeyError")
        ELSE Return([self EXCEPT !._metadata = DictDel(@, k.ret)], PyNone)

HasMetadata__getitem__(self, key) ==
    LET k == _key_try(key)
    IN  IF k.exc # "None" THEN Raise(self, k.exc)
        ELSE IF ~DictHas(self._metadata, k.ret) THEN Raise(self, "KeyError")
        ELSE Return(self, DictGet(self._metadata, k.ret))

\* Faulty variant: the entry is stored before the value is checked.
setitem_store_first(self, key, value) ==
    LET k == _key_try(key)
    IN  IF k.exc # "None" THEN Raise(self, k.exc)
        ELSE Result([self EXCEPT !._metadata = DictSet(@, k.ret, value)], PyNone,
                    IF IsStr(value) THEN "None" ELSE "ValueError", PyNone, 0, 0)

HasMetadata__setitem__(self, key, value) ==
    IF ~IsStr(value) THEN Raise(self, "ValueError")
    ELSE LET k == _key_try(key)
         IN  IF k.exc # "None" THEN Raise(self, k.exc)
             ELSE Return([self EXCEPT !._metadata = DictSet(@, k.ret, value)], PyNone)

\* MutableMapping.update's loop: self[key] = value for every item in turn, up
\* to the first one that raises.
RECURSIVE update_items(_, _)
update_items(self, items) ==
    IF items = <<>> THEN Return(self, PyNone)
    ELSE LET r == HasMetadata__setitem__(self, Head(items)[1], Head(items)[2])
         IN  IF r.exc # "None" THEN r ELSE update_items(r.self, Tail(items))

\* self.update(other, **kwds): the items of other, then the keyword items.
HasMetadata_update(self, other, kwds) == update_items(self, other.val \o kwds.val)

\* HasMetadata(*args, **kwargs)
HasMetadata__init__(self, args, kwargs) ==
    LET fresh == [self EXCEPT !.alive = TRUE, !._metadata = PyDict(<<>>)]
    IN  IF args = <<>> THEN Return(fresh, PyNone)
        ELSE IF IsNone(args[1]) THEN Return(fresh, PyNone)
        ELSE LET r == HasMetadata_update(fresh, args[1], kwargs)
             IN  IF r.exc # "None" THEN Raise(self, r.exc) ELSE r

\* The dicts of at most n items with keys from ks and values from vs.
Dicts(ks, vs, n) ==
    {PyDict(q) : q \in {q \in UNION {[1..j -> ks \X vs] : j \in 0..n} :
                          \A i, j \in 1..Len(q) : i # j => q[i][1] # q[j][1]}}

\* Keys that entered the map in a bulk call: those among the keys handed in,
\* in the order handed in, that are present after it and were not before.
RECURSIVE NewKeys(_, _, _)
NewKeys(ord, keys, d) ==
    IF keys = <<>> THEN ord
    ELSE LET k == Head(keys)
             in == \E i \in 1..Len(ord) : ord[i] = k
         IN  NewKeys(IF ~in /\ DictHas(d, k) THEN Append(ord, k) ELSE ord,
                     Tail(keys), d)

Without(ord, k) == SelectSeq(ord, LAMBDA x : x # k)

\* m = HasMetadata(*args, **kwargs)
MConstruct(m, args, kwargs) ==
    /\ ~meta[m].alive
    /\ LET r == HasMetadata__init__(meta[m], args, kwargs)
           handed == (IF args = <<>> \/ IsNone(args[1]) THEN <<>> ELSE DictKeys(args[1]))
                     \o DictKeys(kwargs)
       IN  /\ meta' = [meta EXCEPT ![m] = r.self]
           /\ last' = Called("minit", m, 0, r)
           /\ order' = [order EXCEPT ![m] = NewKeys(<<>>, handed, r.self._metadata)]
    /\ UNCHANGED <<dataVars, observing, ident, idcalls, thr>>

\* m.update(d, **kwargs)
MUpdate(m, d, kwargs) ==
    /\ meta[m].alive
    /\ LET r == HasMetadata_update(meta[m], d, kwargs)
       IN  /\ meta' = [meta EXCEPT ![m] = r.self]
           /\ last' = Called("update", m, 0, r)
           /\ order' = [order EXCEPT ![m] =
                            NewKeys(@, DictKeys(d) \o DictKeys(kwargs), r.self._metadata)]
    /\ UNCHANGED <<dataVars, observing, ident, idcalls, thr>>

\* m[k] = v
MSet(m, k, v) ==
    /\ meta[m].alive
    /\ LET r == HasMetadata__setitem__(meta[m], k, v)
       IN  /\ meta' = [meta EXCEPT ![m] = r.self]
           /\ last' = Called("setitem", m, 0, r)
           /\ order' = [order EXCEPT ![m] =
                            IF r.exc = "None" /\ (\A i \in 1..Len(@) : @[i] # k)
                            THEN Append(@, k) ELSE @]
    /\ UNCHANGED <<dataVars, observing, ident, idcalls, thr>>

\* del m[k]
MDel(m, k) ==
    /\ meta[m].alive
    /\ LET r == HasMetadata__delitem__(meta[m], k)
       IN  /\ meta' = [meta EXCEPT ![m] = r.self]
           /\ last' = Called("delitem", m, 0, r)
           /\ order' = [order EXCEPT ![m] = IF r.exc = "None" THEN Without(@, k) ELSE @]
    /\ UNCHANGED <<dataVars, observing, ident, idcalls, thr>>

\* m[k]
MGet(m, k) ==
    /\ meta[m].alive
    /\ LET r == HasMetadata__getitem__(meta[m], k)
       IN  /\ meta' = [meta EXCEPT ![m] = r.self]
           /\ last' = Called("getitem", m, 0, r)
    /\ UNCHANGED <<dataVars, observing, order, ident, idcalls, thr>>

\* k in m
MContains(m, k) ==
    /\ meta[m].alive
    /\ LET r == HasMetadata__contains__(meta[m], k)
       IN  /\ meta' = [meta EXCEPT ![m] = r.self]
           /\ last' = Called("contains", m, 0, r)
    /\ UNCHANGED <<dataVars, observing, order, ident, idcalls, thr>>

\* m == n, n another (or the same) map
MEqMap(m, n) ==
    /\ meta[m].alive /\ meta[n].alive
    /\ LET r == HasMetadata__eq__(meta[m], meta[n])
       IN  /\ meta' = [meta EXCEPT ![n] = r.other, ![m] = r.self]
           /\ last' = Called("meq", m, n, r)
    /\ UNCHANGED <<dataVars, observing, order, ident, idcalls, thr>>

\* m == v, v a dict or another value
MEqValue(m, v) ==
    /\ meta[m].alive
    /\ LET r == HasMetadata__eq__(meta[m], v)
       IN  /\ meta' = [meta EXCEPT ![m] = r.self]
           /\ last' = Called("meq", m, 0, r)
    /\ UNCHANGED <<dataVars, observing, order, ident, idcalls, thr>>

\* hash(m)
MHash(m) ==
    /\ meta[m].alive
    /\ LET r == HasMetadata__hash__(meta[m])
       IN  /\ meta' = [meta EXCEPT ![m] = r.self]
           /\ last' = Called("mhash", m, 0, r)
    /\ UNCHANGED <<dataVars, observing, order, ident, idcalls, thr>>

\* list(m)
MIter(m) ==
    /\ meta[m].alive
    /\ LET r == HasMetadata__iter__(meta[m])
       IN  /\ meta' = [meta EXCEPT ![m] = r.self]
           /\ last' = Called("iter", m, 0, r)
    /\ UNCHANGED <<dataVars, observing, order, ident, idcalls, thr>>

\* len(m)
MLen(m) ==
    /\ meta[m].alive
    /\ LET r == HasMetadata__len__(meta[m])
       IN  /\ meta' = [meta EXCEPT ![m] = r.self]
           /\ last' = Called("mlen", m, 0, r)
    /\ UNCHANGED <<dataVars, observing, order, ident, idcalls, thr>>

\* The positional arguments of a construction: none, None, or one dict.
InitArgs(ks) ==
    {<<>>, <<PyNone>>} \cup {<<d>> : d \in Dicts(ks \cup NonStr, MetaValues \cup NonStr, 2)}

\* Keyword arguments: the keys are strings.
KwArgs(ks) == Dicts(ks, MetaValues \cup NonStr, 1)

MetaCalls(ms, ks) ==
    \/ \E m \in ms, args \in InitArgs(ks), kw \in KwArgs(ks) : MConstruct(m, args, kw)
    \/ \E m \in ms, d \in Dicts(ks \cup NonStr, MetaValues \cup NonStr, 2) :
            MUpdate(m, d, PyDict(<<>>))
    \/ \E m \in ms, kw \in KwArgs(ks) : MUpdate(m, PyDict(<<>>), kw)
    \/ \E m \in ms, k \in ks \cup NonStr, v \in MetaValues \cup NonStr : MSet(m, k, v)
    \/ \E m \in ms, k \in ks \cup NonStr : MDel(m, k)
    \/ \E m \in ms, k \in ks \cup NonStr : MGet(m, k)
    \/ \E m \in ms, k \in ks \cup NonStr : MContains(m, k)
    \/ \E m \in ms, n \in ms : MEqMap(m, n)
    \/ \E m \in ms, v \in Dicts(ks, MetaValues, 2) \cup NonStr : MEqValue(m, v)
    \/ \E m \in ms : MHash(m)
    \/ \E m \in ms : MIter(m)
    \/ \E m \in ms : MLen(m)

\* One metadata map, every call recorded.
NextMeta == MetaCalls({1}, MetaKeys)

SpecMeta == Init /\ [][NextMeta]_vars

\* Two metadata maps, calls not recorded.
NextMetaPair == MetaCalls(Maps, MetaKeys)

SpecMetaPair == InitPair /\ [][NextMetaPair]_vars

\* -------------------------------------------------------------- HasID
\* Number of identifiers _id_get can produce.
NumIds == 2

PyUUID(n) == [type |-> "UUID", val |-> <<n>>]

\* The values uuid.uuid4() may return.
Ids == {PyUUID(n) : n \in 1..NumIds}

\* A result of a HasID method: gets is the number of _id_get calls it made.
IdResult(self, exc, ret, gets) == [self |-> self, exc |-> exc, ret |-> ret, gets |-> gets]

\* _id_get(): u is the value uuid.uuid4() returned.
_id_get(u) == IdResult(PyNone, "None", u, 1)

\* HasID()
HasID__init__(self, u) ==
    LET g == _id_get(u)
    IN  IdResult([self EXCEPT !.alive = TRUE, !._id = g.ret], "None", PyNone, g.gets)

\* o.id
id(self) == IdResult(self, "None", self._id, 0)

\* Faulty variant: the identifier can be assigned.
id_setter_assigns(self, value) == IdResult([self EXCEPT !._id = value], "None", PyNone, 0)

\* o.id = value: the property has no setter.
id_setter(self, value) == IdResult(self, "AttributeError", PyNone, 0)

\* The call record of a HasID method.
IdCalled(op, r) == Called(op, 0, 0, Result(r.self, PyNone, r.exc, r.ret, 0, 0))

Counted(n, r) == IF n + r.gets < 2 THEN n + r.gets ELSE 2

IConstruct(u) ==
    /\ ~ident.alive
    /\ LET r == HasID__init__(ident, u)
       IN  /\ ident' = r.self
           /\ last' = IdCalled("idinit", r)
           /\ idcalls' = Counted(idcalls, r)
    /\ UNCHANGED <<dataVars, observing, meta, order, thr>>

IRead ==
    /\ ident.alive
    /\ LET r == id(ident)
       IN  /\ ident' = r.self
           /\ last' = IdCalled("id", r)
           /\ idcalls' = Counted(idcalls, r)
    /\ UNCHANGED <<dataVars, observing, meta, order, thr>>

IAssign(v) ==
    /\ ident.alive
    /\ LET r == id_setter(ident, v)
       IN  /\ ident' = r.self
           /\ last' = IdCalled("idset", r)
           /\ idcalls' = Counted(idcalls, r)
    /\ UNCHANGED <<dataVars, observing, meta, order, thr>>

IDCalls ==
    \/ \E u \in Ids : IConstruct(u)
    \/ IRead
    \/ \E v \in Ids : IAssign(v)

\* An object that is a HasID, a HasData and a HasMetadata at once: one
\* payload and one metadata key are enough to make every call.
NextID ==
    \/ IDCalls
    \/ Calls({1}, {<<97>>})
    \/ MetaCalls({1}, {PyStr(<<97>>)})

SpecID == Init /\ [][NextID]_vars

\* ----------------------------------- a digest read and a replacement, stepwise
\* The statements of the shash getter and of the data setter, one operator
\* each, for two threads that call into the same object with no lock.

\* if self._shash_dirty or self._shash is None
shash_test(self) == self._shash_dirty \/ IsNone(self._shash)

\* self._shash = self._shash_init()
shash_init_step(self) ==
    [self EXCEPT !._shash = _shash_init(BLAKE2_DATA_LENGTH, BLAKE2_DATA_SEED)]

\* self._data_hash(self._shash)
shash_feed_step(self) == [self EXCEPT !._shash = _data_hash(self, @)]

\* self._shash_dirty = False
shash_clear_step(self) == [self EXCEPT !._shash_dirty = FALSE]

\* return self._shash.hexdigest()
shash_return_step(self) == hexdigest(self._shash)

\* self._data_set(data)
setter_store_step(self, v) == _data_set(self, v)

\* Faulty variant: the replacement leaves the strong flag as it is.
setter_forgets_strong(self) == self

\* self._shash_dirty = ... = True
setter_mark_strong_step(self) == [self EXCEPT !._shash_dirty = TRUE]

\* self._whash_dirty = True
setter_mark_weak_step(self) == [self EXCEPT !._whash_dirty = TRUE]

\* The reader thread enters obj[1].shash.
RCall ==
    /\ obj[1].alive /\ thr.reader = "idle"
    /\ thr' = [thr EXCEPT !.reader = "test", !.since = "none"]
    /\ UNCHANGED <<obj, observing, last, seen, everread, meta, order, ident, idcalls>>

RTest ==
    /\ thr.reader = "test"
    /\ thr' = [thr EXCEPT !.reader = IF shash_test(obj[1]) THEN "init" ELSE "ret"]
    /\ UNCHANGED <<obj, observing, last, seen, everread, meta, order, ident, idcalls>>

RInit ==
    /\ thr.reader = "init"
    /\ obj' = [obj EXCEPT ![1] = shash_init_step(@)]
    /\ thr' = [thr EXCEPT !.reader = "feed"]
    /\ UNCHANGED <<observing, last, seen, everread, meta, order, ident, idcalls>>

\* History: from here on thr.since follows what the writer does to the
\* payload this digest was fed with.
RFeed ==
    /\ thr.reader = "feed"
    /\ obj' = [obj EXCEPT ![1] = shash_feed_step(@)]
    /\ thr' = [thr EXCEPT !.reader = "clear", !.since = "fed"]
    /\ UNCHANGED <<observing, last, seen, everread, meta, order, ident, idcalls>>

\* History: the recompute was overtaken when a replacement stored its payload
\* and set the strong flag after the feeding and before this clearing.
RClear ==
    /\ thr.reader = "clear"
    /\ obj' = [obj EXCEPT ![1] = shash_clear_step(@)]
    /\ thr' = [thr EXCEPT !.reader = "ret", !.overtaken = (thr.since = "marked"),
                          !.since = "none"]
    /\ UNCHANGED <<observing, last, seen, everread, meta, order, ident, idcalls>>

RReturn ==
    /\ thr.reader = "ret"
    /\ thr' = [thr EXCEPT !.reader = "idle", !.ret = shash_return_step(obj[1])]
    /\ UNCHANGED <<obj, observing, last, seen, everread, meta, order, ident, idcalls>>

\* The writer thread enters obj[1].data = v.
WCall(v) ==
    /\ obj[1].alive /\ thr.writer = "idle"
    /\ thr' = [thr EXCEPT !.writer = "store", !.arg = v]
    /\ UNCHANGED <<obj, observing, last, seen, everread, meta, order, ident, idcalls>>

WStore ==
    /\ thr.writer = "store"
    /\ LET r == setter_store_step(obj[1], thr.arg)
       IN  /\ obj' = [obj EXCEPT ![1] = r.self]
           /\ thr' = IF r.exc # "None"
                     THEN [thr EXCEPT !.writer = "idle", !.arg = PyNone]
                     ELSE [thr EXCEPT !.writer = "markS", !.arg = PyNone,
                                      !.since = IF @ = "fed" THEN "stored" ELSE @]
    /\ UNCHANGED <<observing, last, seen, everread, meta, order, ident, idcalls>>

WMarkStrong ==
    /\ thr.writer = "markS"
    /\ obj' = [obj EXCEPT ![1] = setter_mark_strong_step(@)]
    /\ thr' = [thr EXCEPT !.writer = "markW",
                          !.since = IF @ = "stored" THEN "marked" ELSE @]
    /\ UNCHANGED <<observing, last, seen, everread, meta, order, ident, idcalls>>

WMarkWeak ==
    /\ thr.writer = "markW"
    /\ obj' = [obj EXCEPT ![1] = setter_mark_weak_step(@)]
    /\ thr' = [thr EXCEPT !.writer = "idle"]
    /\ UNCHANGED <<observing, last, seen, everread, meta, order, ident, idcalls>>

\* One object, one thread reading its strong digest, one replacing its
\* payload; a thread switch can fall between any two statements.
NextThreads ==
    \/ \E p \in PairPayloads : Construct(1, PyBytes(p))
    \/ RCall \/ RTest \/ RInit \/ RFeed \/ RClear \/ RReturn
    \/ \E v \in {PyBytes(p) : p \in PairPayloads} \cup NonBytes : WCall(v)
    \/ WStore \/ WMarkStrong \/ WMarkWeak

SpecThreads == InitPair /\ [][NextThreads]_vars

\* ------------------------------------------------------------- claims
Live == {c \in Containers : obj[c].alive}

\* The digests of a payload, computed afresh.
StrongDigestOf(p) ==
    hexdigest(update(_shash_init(BLAKE2_DATA_LENGTH, BLAKE2_DATA_SEED), p))

WeakDigestOf(p) == hexdigest(update(_whash_init(XXH64_DATA_SEED), p))

StrongClean(o) == ~IsNone(o._shash) /\ ~o._shash_dirty
WeakClean(o) == ~IsNone(o._whash) /\ ~o._whash_dirty

\* C1: no stale digest. A strong (weak) digest read returns the strong (weak)
\* digest of the payload that is current at the read, whatever constructions,
\* replacements (successful or rejected) and other calls came before; a cache
\* that is set and not dirty holds the digest of the current payload.
C1_NoStaleDigest ==
    /\ \A c \in Live :
        /\ shash(obj[c]).ret = StrongDigestOf(obj[c]._data)
        /\ whash(obj[c]).ret = WeakDigestOf(obj[c]._data)
        /\ StrongClean(obj[c]) =>
              /\ obj[c]._shash.val = obj[c]._data.val
              /\ hexdigest(obj[c]._shash) = StrongDigestOf(obj[c]._data)
        /\ WeakClean(obj[c]) =>
              /\ obj[c]._whash.val = obj[c]._data.val
              /\ hexdigest(obj[c]._whash) = WeakDigestOf(obj[c]._data)
    /\ last.op = "shash" =>
          last.exc = "None" /\ last.ret = StrongDigestOf(obj[last.self]._data)
    /\ last.op = "whash" =>
          last.exc = "None" /\ last.ret = WeakDigestOf(obj[last.self]._data)

\* A strong read that recomputed over a payload other than the one the weak
\* digest was last computed over: the payload was replaced between the reads.
C1_Witness ==
    /\ last.op = "shash" /\ last.self = 1 /\ last.scomp = 1
    /\ ~IsNone(obj[1]._whash) /\ obj[1]._whash_dirty
    /\ obj[1]._whash.val # obj[1]._data.val
    /\ last.ret = StrongDigestOf(obj[1]._data)
    /\ last.ret # StrongDigestOf(PyBytes(obj[1]._whash.val))

\* C2: memoization count. For each digest, a read with no earlier read of that
\* digest since the payload was last assigned (by construction or by a
\* successful replacement) performs exactly one computation of that digest;
\* every further read performs none and returns the value read before.
C2_ReadNow ==
    \A c \in Live :
        /\ IF IsNone(seen[c].s)
           THEN shash(obj[c]).scomp = 1
           ELSE shash(obj[c]).scomp = 0 /\ shash(obj[c]).ret = seen[c].s
        /\ IF IsNone(seen[c].w)
           THEN whash(obj[c]).wcomp = 1
           ELSE whash(obj[c]).wcomp = 0 /\ whash(obj[c]).ret = seen[c].w

C2_ReadStep ==
    \A c \in Containers :
        /\ (last'.op = "shash" /\ last'.self = c) =>
              IF IsNone(seen[c].s)
              THEN last'.scomp = 1
              ELSE last'.scomp = 0 /\ last'.ret = seen[c].s
        /\ (last'.op = "whash" /\ last'.self = c) =>
              IF IsNone(seen[c].w)
              THEN last'.wcomp = 1
              ELSE last'.wcomp = 0 /\ last'.ret = seen[c].w

C2_MemoizationCount == []C2_ReadNow /\ [][C2_ReadStep]_vars

\* A second strong read after a successful replacement: no computation.
C2_Witness ==
    /\ last.op = "shash" /\ last.self = 1 /\ last.scomp = 0
    /\ obj[1]._whash_dirty
    /\ last.ret = seen[1].s

\* C3: laziness. Only a strong or weak digest read computes a digest or
\* changes a digest cache: construction, replacement and every other call
\* perform no computation, and an object none of whose digests was ever read
\* holds no cached digest.
C3_NeverRead ==
    \A c \in Live : ~everread[c] => IsNone(obj[c]._shash) /\ IsNone(obj[c]._whash)

C3_OtherStep ==
    last'.op \notin {"shash", "whash"} =>
        /\ last'.scomp = 0 /\ last'.wcomp = 0
        /\ \A c \in Containers :
              /\ obj'[c]._shash = obj[c]._shash
              /\ obj'[c]._whash = obj[c]._whash

C3_Laziness == []C3_NeverRead /\ [][C3_OtherStep]_vars

\* Constructed, then replaced, and no digest read so far.
C3_Witness ==
    /\ last.op = "set" /\ last.self = 1 /\ last.exc = "None"
    /\ ~everread[1] /\ obj[1]._shash_dirty /\ obj[1]._whash_dirty
    /\ IsNone(obj[1]._shash) /\ IsNone(obj[1]._whash)

\* C4: independence of the two digests. A strong read leaves every weak cache
\* and weak dirty flag as it was and computes no weak digest; a weak read
\* leaves every strong cache and strong dirty flag as it was and computes no
\* strong digest.
C4_Step ==
    /\ last'.op = "shash" =>
          /\ last'.wcomp = 0
          /\ \A c \in Containers :
                /\ obj'[c]._whash = obj[c]._whash
                /\ obj'[c]._whash_dirty = obj[c]._whash_dirty
    /\ last'.op = "whash" =>
          /\ last'.scomp = 0
          /\ \A c \in Containers :
                /\ obj'[c]._shash = obj[c]._shash
                /\ obj'[c]._shash_dirty = obj[c]._shash_dirty

C4_Independence == [][C4_Step]_vars

\* After a replacement only the strong digest was read: the weak one, cached
\* before the replacement, is still dirty.
C4_Witness ==
    /\ last.op = "shash" /\ last.self = 1 /\ last.scomp = 1
    /\ ~obj[1]._shash_dirty
    /\ obj[1]._whash_dirty /\ ~IsNone(obj[1]._whash)

\* C5: a rejected replacement leaves the container unchanged. Assigning a
\* value that is not a bytes object raises TypeError and changes neither the
\* payload, the caches nor the dirty flags, so a digest read after it returns
\* what a read before it would have returned, with as many computations.
C5_RejectNow ==
    \A c \in Live : \A v \in NonBytes :
        LET r == data_setter(obj[c], v)
        IN  /\ r.exc = "TypeError"
            /\ r.self = obj[c]
            /\ shash(r.self) = shash(obj[c])
            /\ whash(r.self) = whash(obj[c])

C5_RejectStep ==
    (last'.op = "set" /\ last'.exc # "None") =>
        /\ last'.exc = "TypeError"
        /\ obj' = obj
        /\ \A c \in Live :
              /\ shash(obj'[c]).ret = shash(obj[c]).ret
              /\ whash(obj'[c]).ret = whash(obj[c]).ret
              /\ StrongClean(obj[c]) => shash(obj'[c]).scomp = 0
              /\ WeakClean(obj[c]) => whash(obj'[c]).wcomp = 0

C5_RejectedReplacement == []C5_RejectNow /\ [][C5_RejectStep]_vars

\* A rejected replacement on a container whose digests are cached and clean.
C5_Witness ==
    /\ last.op = "set" /\ last.self = 1 /\ last.exc = "TypeError"
    /\ StrongClean(obj[1]) /\ WeakClean(obj[1])
    /\ Len(obj[1]._data.val) > 0

\* The byte sequences a container is compared with.
RawOperands(ps) == {PyBytes(p) : p \in ps} \cup {PyByteArray(p) : p \in ps}

\* The object with its digest caches as a fresh object has them.
Uncached(o) ==
    [o EXCEPT !._shash = PyNone, !._whash = PyNone,
              !._shash_dirty = FALSE, !._whash_dirty = FALSE]

Replaced(o) == o._shash_dirty \/ o._whash_dirty \/ StrongClean(o) \/ WeakClean(o)

\* C6: secure equality is payload equality. c == other returns True exactly
\* when the current payload of c and the bytes of the operand (the current
\* payload of another container, or a raw byte sequence itself) are the same
\* byte sequence, and False otherwise, without raising.
C6_EqIsPayloadEquality ==
    \A c \in Live :
        /\ \A d \in Live :
              LET r == __eq__(obj[c], obj[d])
              IN  /\ r.exc = "None"
                  /\ r.ret = PyBool(obj[c]._data.val = obj[d]._data.val)
        /\ \A v \in RawOperands(PairPayloads) :
              LET r == __eq__(obj[c], v)
              IN  /\ r.exc = "None"
                  /\ r.ret = PyBool(obj[c]._data.val = v.val)

\* Both payloads replaced, to the same non-empty bytes: equal to each other
\* and to the raw bytes.
C6_Witness ==
    /\ obj[1].alive /\ obj[2].alive
    /\ obj[1]._shash_dirty /\ obj[2]._whash_dirty
    /\ obj[1]._data = obj[2]._data /\ obj[1]._data.val = <<98>>
    /\ __eq__(obj[1], obj[2]).ret = PyBool(TRUE)
    /\ __eq__(obj[2], PyBytes(<<98>>)).ret = PyBool(TRUE)
    /\ __eq__(obj[1], PyBytes(<<97>>)).ret = PyBool(FALSE)
    /\ __eq__(obj[1], PyBytes(<<>>)).ret = PyBool(FALSE)

\* The other half of the case: two live containers with different payloads of
\* the same length compare unequal.
C6_WitnessUnequal ==
    /\ obj[1].alive /\ obj[2].alive
    /\ obj[1]._data.val = <<97>> /\ obj[2]._data.val = <<98>>
    /\ __eq__(obj[1], obj[2]).ret = PyBool(FALSE)

\* C7: equality neither depends on nor touches the digest caches. The result
\* of c == d is the one the two payloads give with no digest ever read,
\* whatever the caches and dirty flags of either container are, and the call
\* changes no attribute of either container and computes no digest.
C7_EqIgnoresCaches ==
    \A c \in Live : \A d \in Live :
        LET r == __eq__(obj[c], obj[d])
        IN  /\ r.self = obj[c] /\ r.other = obj[d]
            /\ r.scomp = 0 /\ r.wcomp = 0
            /\ r.ret = __eq__(Uncached(obj[c]), Uncached(obj[d])).ret
            /\ r.ret = __eq__(obj[c], Uncached(obj[d])).ret
            /\ r.ret = __eq__(Uncached(obj[c]), obj[d]).ret
            /\ r.exc = __eq__(Uncached(obj[c]), Uncached(obj[d])).exc

\* Equal payloads, one container with both digests cached and clean, the
\* other with a stale strong digest and no weak digest: they compare equal.
C7_Witness ==
    /\ obj[1].alive /\ obj[2].alive
    /\ obj[1]._data = obj[2]._data
    /\ StrongClean(obj[1]) /\ WeakClean(obj[1])
    /\ obj[2]._shash_dirty /\ ~IsNone(obj[2]._shash) /\ IsNone(obj[2]._whash)
    /\ obj[2]._shash.val # obj[2]._data.val
    /\ __eq__(obj[1], obj[2]).ret = PyBool(TRUE)
    /\ __eq__(obj[2], obj[1]).ret = PyBool(TRUE)

\* C8: equality against an operand that neither has a data attribute nor is a
\* byte sequence raises TypeError, and the container is as it was before.
C8_EqNow ==
    \A c \in Live : \A v \in NonComparable :
        LET r == __eq__(obj[c], v)
        IN  r.exc = "TypeError" /\ r.self = obj[c]

C8_EqStep ==
    (last'.op = "eq" /\ last'.exc # "None") => last'.exc = "TypeError" /\ obj' = obj

C8_EqRaisesTypeError == []C8_EqNow /\ [][C8_EqStep]_vars

\* A comparison that raised, on a container with a cached digest.
C8_Witness ==
    /\ last.op = "eq" /\ last.self = 1 /\ last.exc = "TypeError"
    /\ StrongClean(obj[1]) /\ Len(obj[1]._data.val) > 0

\* C9: the hash is derived from the payload only and agrees with equality.
\* hash(c) returns the hash of c's current payload bytes without touching c,
\* two containers that compare equal have equal hashes, a digest read leaves
\* the hash as it was and after a replacement the hash is that of the new
\* payload.
C9_HashConsistent ==
    \A c \in Live :
        LET h == __hash__(obj[c])
        IN  /\ h.exc = "None" /\ h.self = obj[c]
            /\ h.ret = PyHash(obj[c]._data)
            /\ \A d \in Live :
                  __eq__(obj[c], obj[d]).ret = PyBool(TRUE) =>
                      h.ret = __hash__(obj[d]).ret
            /\ \A v \in RawOperands(PairPayloads) :
                  (IsBytes(v) /\ __eq__(obj[c], v).ret = PyBool(TRUE)) =>
                      h.ret = PyHash(v)
            /\ __hash__(shash(obj[c]).self).ret = h.ret
            /\ __hash__(whash(obj[c]).self).ret = h.ret
            /\ \A p \in PairPayloads :
                  __hash__(data_setter(obj[c], PyBytes(p)).self).ret
                      = PyHash(PyBytes(p))

\* Two containers that compare equal, in different cache states, one of them
\* after a replacement that changed its hash.
C9_Witness ==
    /\ obj[1].alive /\ obj[2].alive
    /\ __eq__(obj[1], obj[2]).ret = PyBool(TRUE)
    /\ __hash__(obj[1]).ret = __hash__(obj[2]).ret
    /\ StrongClean(obj[1]) /\ IsNone(obj[2]._shash)
    /\ obj[1]._whash_dirty /\ ~IsNone(obj[1]._whash)
    /\ PyHash(PyBytes(obj[1]._whash.val)) # __hash__(obj[1]).ret

\* Index of the first position where two sequences of one length differ (0 if
\* none).
FirstMismatch(a, b) ==
    IF \E i \in 1..Len(a) : a[i] # b[i]
    THEN CHOOSE i \in 1..Len(a) : a[i] # b[i] /\ \A j \in 1..(i - 1) : a[j] = b[j]
    ELSE 0

\* C10: the comparison is constant-time. Two comparisons of one container
\* with byte sequences of one length take the same number of steps, wherever
\* (and whether) each operand first differs from the payload.
C10_EqConstantTime ==
    \A c \in Live : \A n \in 0..MaxLen : \A v, w \in [1..n -> Byte] :
        eq_compare(obj[c], PyBytes(v)).steps = eq_compare(obj[c], PyBytes(w)).steps

\* A comparison has returned False on a container whose payload differs from
\* one operand at the first byte and from another at the second.
C10_Witness ==
    /\ last.op = "eq" /\ last.self = 1 /\ last.ret = PyBool(FALSE)
    /\ obj[1]._data.val = <<97, 97>>
    /\ FirstMismatch(obj[1]._data.val, <<98, 97>>) = 1
    /\ FirstMismatch(obj[1]._data.val, <<97, 98>>) = 2
    /\ eq_compare(obj[1], PyBytes(<<98, 97>>)).steps = 2
    /\ eq_compare(obj[1], PyBytes(<<97, 98>>)).steps = 2

\* C17: dirty flags after a replacement. Right after every successful
\* replacement both dirty flags are true, whatever they were and also when
\* the new payload equals the old one; a digest read leaves its own flag
\* false and the other flag as it was; a flag turns true only in a
\* successful replacement of that container's payload.
C17_SetNow ==
    \A c \in Live : \A p \in Payloads :
        LET r == data_setter(obj[c], PyBytes(p))
        IN  r.exc = "None" /\ r.self._shash_dirty /\ r.self._whash_dirty

C17_Step ==
    \A c \in Containers :
        /\ (last'.op = "set" /\ last'.exc = "None" /\ last'.self = c) =>
              obj'[c]._shash_dirty /\ obj'[c]._whash_dirty
        /\ (last'.op = "shash" /\ last'.self = c) =>
              /\ ~obj'[c]._shash_dirty
              /\ obj'[c]._whash_dirty = obj[c]._whash_dirty
        /\ (last'.op = "whash" /\ last'.self = c) =>
              /\ ~obj'[c]._whash_dirty
              /\ obj'[c]._shash_dirty = obj[c]._shash_dirty
        /\ ((~obj[c]._shash_dirty /\ obj'[c]._shash_dirty)
             \/ (~obj[c]._whash_dirty /\ obj'[c]._whash_dirty)) =>
              last'.op = "set" /\ last'.exc = "None" /\ last'.self = c

C17_DirtyAfterReplacement == []C17_SetNow /\ [][C17_Step]_vars

\* A successful replacement by the payload both digests were computed over:
\* the new payload equals the old one and both flags are true.
C17_Witness ==
    /\ last.op = "set" /\ last.self = 1 /\ last.exc = "None"
    /\ obj[1]._shash_dirty /\ obj[1]._whash_dirty
    /\ ~IsNone(obj[1]._shash) /\ obj[1]._shash.val = obj[1]._data.val
    /\ ~IsNone(obj[1]._whash) /\ obj[1]._whash.val = obj[1]._data.val
    /\ Len(obj[1]._data.val) > 0

LiveMaps == {m \in Maps : meta[m].alive}

Strings(d) == \A i \in 1..Len(d.val) : IsStr(d.val[i][1]) /\ IsStr(d.val[i][2])

\* C11: metadata type invariant.  After any sequence of constructions, item
\* sets, item deletes and bulk updates, failed calls included, every key and
\* every value held in a metadata map is a string.
C11_MetadataStrings == \A m \in Maps : Strings(meta[m]._metadata)

\* A bulk update that raised on a map that holds entries.
C11_Witness ==
    /\ last.op = "update" /\ last.self = 1 /\ last.exc = "TypeError"
    /\ Len(meta[1]._metadata.val) >= 1

\* C12: a non-string key raises TypeError on every write and lookup.  Item
\* get, containment check, item delete and item set with a key that is not a
\* string each raise TypeError and leave the map unchanged; for item set this
\* holds for every value, a non-string value included.
C12_NonStringKeyTypeError ==
    \A m \in LiveMaps : \A k \in NonStr :
        /\ HasMetadata__getitem__(meta[m], k) = Raise(meta[m], "TypeError")
        /\ HasMetadata__contains__(meta[m], k) = Raise(meta[m], "TypeError")
        /\ HasMetadata__delitem__(meta[m], k) = Raise(meta[m], "TypeError")
        /\ \A v \in MetaValues \cup NonStr :
              HasMetadata__setitem__(meta[m], k, v) = Raise(meta[m], "TypeError")

\* What a lookup of k answers: the exception and the value.
Lookup(o, k) ==
    LET r == HasMetadata__getitem__(o, k) IN <<r.exc, r.ret>>

\* C13: metadata write semantics.  m[k] = v with string k and string v makes
\* a following read of m[k] return v and changes no other entry; m[k] = v with
\* a string k and a non-string v raises ValueError and leaves the map exactly
\* as it was, the previous value of k included.
C13_WriteSemantics ==
    \A m \in LiveMaps : \A k \in MetaKeys :
        /\ \A v \in MetaValues :
              LET r == HasMetadata__setitem__(meta[m], k, v)
              IN  /\ r.exc = "None"
                  /\ Lookup(r.self, k) = <<"None", v>>
                  /\ \A j \in MetaKeys \ {k} : Lookup(r.self, j) = Lookup(meta[m], j)
                  /\ Strings(r.self._metadata)
                  /\ Len(r.self._metadata.val) =
                         Len(meta[m]._metadata.val)
                             + (IF Lookup(meta[m], k)[1] = "None" THEN 0 ELSE 1)
        /\ \A v \in NonStr :
              HasMetadata__setitem__(meta[m], k, v) = Raise(meta[m], "ValueError")

\* A rejected value on a map that already holds a value for the key, after
\* which the key still reads as before.
C13_Witness ==
    /\ last.op = "setitem" /\ last.self = 1 /\ last.exc = "ValueError"
    /\ Len(meta[1]._metadata.val) = NumKeys
    /\ Lookup(meta[1], PyStr(<<97>>)) = <<"None", PyStr(<<50>>)>>

NoRepeat(q) == \A i, j \in 1..Len(q) : i # j => q[i] # q[j]

Pairs(d) == {d.val[i] : i \in 1..Len(d.val)}

\* C15: metadata equality is by content.  A map compares equal to another
\* map, or to a plain dict, exactly when both hold the same set of key/value
\* pairs, whatever the order of the entries and whether or not the two are the
\* same object; the comparison changes neither operand.
C15_EqByContent ==
    \A m \in LiveMaps :
        /\ \A n \in LiveMaps :
              HasMetadata__eq__(meta[m], meta[n]) =
                  Result(meta[m], meta[n], "None",
                         PyBool(Pairs(meta[m]._metadata) = Pairs(meta[n]._metadata)), 0, 0)
        /\ \A d \in Dicts(MetaKeys, MetaValues, NumKeys) :
              HasMetadata__eq__(meta[m], d) =
                  Result(meta[m], d, "None", PyBool(Pairs(meta[m]._metadata) = Pairs(d)), 0, 0)

\* Two maps with the same two entries, inserted in opposite orders.
C15_Witness ==
    /\ LiveMaps = Maps
    /\ Len(meta[1]._metadata.val) = 2
    /\ Pairs(meta[1]._metadata) = Pairs(meta[2]._metadata)
    /\ DictKeys(meta[1]._metadata) # DictKeys(meta[2]._metadata)

\* Two maps that differ in the value of one key.
C15_WitnessUnequal ==
    /\ LiveMaps = Maps
    /\ DictKeys(meta[1]._metadata) = DictKeys(meta[2]._metadata)
    /\ Len(meta[1]._metadata.val) = 2
    /\ meta[1]._metadata # meta[2]._metadata

StrDicts(n) == Dicts(MetaKeys, MetaValues, n)

\* C19: the constructor keeps every supplied entry.  After construction every
\* string entry handed in is present: the keyword entries, and the entries of
\* the positional dict whose key is not also a keyword; this holds with a
\* positional dict, with a positional None and with no positional argument.
\* Construction with no arguments yields an empty map.
C19_ConstructorKeepsEntries ==
    \A m \in Maps :
        ~meta[m].alive =>
            /\ HasMetadata__init__(meta[m], <<>>, PyDict(<<>>)).self._metadata = PyDict(<<>>)
            /\ \A args \in {<<>>, <<PyNone>>} \cup {<<d>> : d \in StrDicts(2)} :
               \A kw \in StrDicts(1) :
                  LET r == HasMetadata__init__(meta[m], args, kw)
                      pos == IF args = <<>> \/ IsNone(args[1]) THEN PyDict(<<>>) ELSE args[1]
                  IN  /\ r.exc = "None" /\ r.self.alive
                      /\ \A e \in Pairs(kw) : e \in Pairs(r.self._metadata)
                      /\ \A e \in Pairs(pos) :
                            ~DictHas(kw, e[1]) => e \in Pairs(r.self._metadata)

\* C20: hash of a metadata map.  hash(m) returns an integer in every state of
\* the map, empty or populated, without raising, and two maps that compare
\* equal return equal hash values.
C20_HashReturnsInteger ==
    \A m \in LiveMaps :
        LET h == HasMetadata__hash__(meta[m])
        IN  /\ h.exc = "None" /\ h.ret.type = "int" /\ h.self = meta[m]
            /\ \A n \in LiveMaps :
                  HasMetadata__eq__(meta[m], meta[n]).ret = PyBool(TRUE) =>
                      HasMetadata__hash__(meta[n]).ret = h.ret

\* C16: identifier immutability.  The identifier is produced by exactly one
\* call of _id_get, at construction; every later read returns that value; no
\* call on the object (identifier read, payload replacement, digest read,
\* equality, metadata set or delete) regenerates or changes it, and assigning
\* to the accessor raises and changes nothing.
C16_IdNow ==
    /\ ident.alive <=> idcalls = 1
    /\ ident.alive =>
          /\ ident._id \in Ids
          /\ id(ident) = IdResult(ident, "None", ident._id, 0)
          /\ \A v \in Ids : id_setter(ident, v) = IdResult(ident, "AttributeError", PyNone, 0)

C16_IdStep ==
    /\ ident.alive => ident' = ident /\ idcalls' = idcalls
    /\ last'.op = "id" => last'.ret = ident._id
    /\ last'.op = "idset" => last'.exc = "AttributeError"

C16_IdentifierImmutable == []C16_IdNow /\ [][C16_IdStep]_vars

\* The identifier was just read on an object whose payload was replaced and
\* digested and whose metadata holds an entry.
C16_Witness ==
    /\ last.op = "id" /\ last.ret = PyUUID(2)
    /\ StrongClean(obj[1]) /\ everread[1]
    /\ Len(meta[1]._metadata.val) = 1

Quiescent == thr.reader = "idle" /\ thr.writer = "idle"

\* The strong cache is set, not dirty, and holds the digest of a payload
\* other than the current one.
StaleClean(o) == StrongClean(o) /\ o._shash.val # o._data.val

\* The statements of the getter, run without interruption.
ReadUninterrupted(o) ==
    IF shash_test(o)
    THEN LET s == shash_clear_step(shash_feed_step(shash_init_step(o)))
         IN  <<s, shash_return_step(s)>>
    ELSE <<o, shash_return_step(o)>>

\* The statements of the setter, run without interruption.
ReplaceUninterrupted(o, v) ==
    LET r == setter_store_step(o, v)
    IN  IF r.exc # "None" THEN r.self
        ELSE setter_mark_weak_step(setter_mark_strong_step(r.self))

\* C18, as claimed: recompute-and-clear is atomic with the read.  When a
\* replacement by another thread is interleaved with the statements of a
\* digest read, no state is reached, once both calls have returned, in which
\* the strong flag is false while the cache holds the digest of a payload
\* other than the current one.
C18_AtomicRecompute ==
    (obj[1].alive /\ Quiescent) => ~StaleClean(obj[1])

\* C18, as the code has it: the getter feeds the hash and clears the flag in
\* separate statements and takes no lock.  Run without interruption the
\* statements make the read and the replacement of the serial model, and once
\* both calls have returned a false flag over a stale cache is left only by a
\* recompute that was overtaken: a replacement stored its payload and set the
\* strong flag after the read fed the hash and before it cleared the flag.
C18_StaleOnlyWhenOvertaken ==
    obj[1].alive =>
        /\ ReadUninterrupted(obj[1]) = <<shash(obj[1]).self, shash(obj[1]).ret>>
        /\ \A v \in {PyBytes(p) : p \in PairPayloads} \cup NonBytes :
              ReplaceUninterrupted(obj[1], v) = data_setter(obj[1], v).self
        /\ (Quiescent /\ StaleClean(obj[1])) => thr.overtaken
        /\ (Quiescent /\ ~thr.overtaken /\ StrongClean(obj[1])) =>
              hexdigest(obj[1]._shash) = StrongDigestOf(obj[1]._data)

\* Both calls have returned, the flag is false and the cache holds the digest
\* of the payload the replacement has overwritten; the read returned it.
C18_Witness ==
    /\ obj[1].alive /\ Quiescent /\ thr.overtaken
    /\ StaleClean(obj[1])
    /\ obj[1]._data = PyBytes(<<98>>)
    /\ thr.ret = StrongDigestOf(PyBytes(<<97>>))

====
